---- MODULE Spec2Model ----
(***************************************************************************)
(* Model of src/base/logging.h: the FATAL / UNREACHABLE / UNIMPLEMENTED    *)
(* macros, the CHECK family with its typed CheckEqualsHelper and           *)
(* CheckNonEqualsHelper overloads, the ASSERT family and the flag-gated    *)
(* EXTRA_CHECK / PPCPORT_* families.                                       *)
(* The preprocessor symbols the header tests (DEBUG, the two extra-check   *)
(* flags, and V8_OS_AIX with V8_HOST_ARCH_32_BIT) are fixed per build.     *)
(*                                                                         *)
(* A macro is an operator that yields the effect of executing its          *)
(* expansion at a call site: how often its operand expressions are         *)
(* evaluated, the V8_Fatal call it makes (if any), and the double helper   *)
(* it enters (if any).  The double helpers allocate, so they run as        *)
(* several steps that interleave with other threads.                       *)
(***************************************************************************)
EXTENDS Integers, Sequences, FiniteSets, TLC

VARIABLES
    debug,          \* DEBUG is defined (development build)
    aix32,          \* V8_OS_AIX && V8_HOST_ARCH_32_BIT (intptr_t is long int)
    extraChecks,    \* ENABLE_EXTRA_CHECKS is defined
    ppcChecks,      \* ENABLE_EXTRA_PPCCHECKS is defined
    pc,             \* per thread: position (idle, inside a double helper, aborted, threw)
    frame,          \* per thread: the double helper's parameters and locals
    last,           \* the observed (main) thread's most recent macro invocation
    fatalCalls,     \* the calls made to V8_Fatal, in order
    backtraces,     \* the calls made to v8::base::DumpBacktrace
    outstanding,    \* heap blocks allocated by the helpers and not yet released
    released,       \* heap blocks the helpers have released so far
    passes          \* macro invocations that have returned normally

vars == <<debug, aix32, extraChecks, ppcChecks, pc, frame, last, fatalCalls,
          backtraces, outstanding, released, passes>>

\* ------------------------------------------------------------------ bounds

NumWorkers == 2
MaxPasses == 1

Workers == 1..NumWorkers
Main == NumWorkers + 1
Threads == Workers \cup {Main}

\* ------------------------------------------------------------------ values

\* Call sites (__FILE__, __LINE__).
NoSite == [file |-> "", line |-> 0]
Sites == { [file |-> "a.cc", line |-> 10], [file |-> "b.cc", line |-> 20] }

\* int operands.
Ints == {-1, 3, 5}

\* intptr_t operands of a 32-bit AIX build, where intptr_t is long int, a
\* type of its own.  (Elsewhere intptr_t is int or int64_t and its operands
\* are among those.)
Intptrs == {0, 16, 32}

\* int64_t operands, as four 16-bit limbs, most significant first
\* (two's complement): 0x0000000100000002, 0x0000000000000003, -1,
\* 0x8000000012345678.
Int64s == { <<0, 1, 0, 2>>, <<0, 0, 0, 3>>, <<65535, 65535, 65535, 65535>>,
            <<32768, 0, 4660, 22136>> }

\* const char* operands: addresses of NUL-terminated byte arrays; address
\* NULL holds nothing.  Addresses 1 and 2 hold the same bytes ("abc"),
\* 3 holds "abd", 4 holds "ab", 5 holds "".
NULL == 0
StrMem == [a \in 1..5 |->
             CASE a = 1 -> <<97, 98, 99, 0>>
               [] a = 2 -> <<97, 98, 99, 0>>
               [] a = 3 -> <<97, 98, 100, 0>>
               [] a = 4 -> <<97, 98, 0>>
               [] OTHER -> <<0>>]
CharPtrs == {NULL} \cup DOMAIN StrMem

\* const void* operands: addresses.
VoidPtrs == {NULL, 16, 32}

\* double operands.  A value may sit in an x87 register with more than 64
\* bits of precision; q counts quarter units of the last place of the
\* 64-bit format, so q is a multiple of 4 exactly for the values a 64-bit
\* double holds.
Doubles == { [nan |-> FALSE, q |-> 4], [nan |-> FALSE, q |-> 5],
             [nan |-> FALSE, q |-> 8], [nan |-> TRUE, q |-> 0] }

Operand(src, kind, v) == [src |-> src, kind |-> kind, v |-> v]
OperandsOf(src, kind) ==
    CASE kind = "int"    -> { Operand(src, kind, v) : v \in Ints }
      [] kind = "int64"  -> { Operand(src, kind, v) : v \in Int64s }
      [] kind = "intptr" -> { Operand(src, kind, v) : v \in Intptrs }
      [] kind = "string" -> { Operand(src, kind, v) : v \in CharPtrs }
      [] kind = "ptr"    -> { Operand(src, kind, v) : v \in VoidPtrs }
      [] kind = "double" -> { Operand(src, kind, v) : v \in Doubles }
      [] kind = "bool"   -> { Operand(src, kind, v) : v \in BOOLEAN }
\* The operand types CheckNonEqualsHelper is overloaded on, and those
\* CheckEqualsHelper is: the same, and intptr_t under #if V8_OS_AIX &&
\* V8_HOST_ARCH_32_BIT.
Kinds == {"int", "int64", "string", "ptr", "double"}
EqualsKinds == IF aix32 THEN Kinds \cup {"intptr"} ELSE Kinds
\* The pointer types ASSERT_NOT_NULL(p) is used on.
PointerKinds == {"string", "ptr"}

\* ------------------------------------------------------------- effects

\* A variadic argument as passed: its static type and its value.
Arg(type, arg) == [type |-> type, arg |-> arg]

\* The call V8_Fatal(file, line, format, ...).  A format is the literal cut
\* at its conversion specifications.
V8_Fatal(file, line, format, args) ==
    [file |-> file, line |-> line, format |-> format, args |-> args]

\* The frame of a double helper: its parameters, its locals exp and val (the
\* contents of the block each points to, <<>> while it points to none) and
\* which of the two helpers it is.
NoFrame == [file |-> "", line |-> 0,
            expected_source |-> "", expected |-> [nan |-> FALSE, q |-> 0],
            value_source |-> "", value |-> [nan |-> FALSE, q |-> 0],
            exp |-> <<>>, val |-> <<>>, fn |-> "none"]

\* A macro invocation as observed: the macro, its call site, its operands,
\* how often they were evaluated and how the invocation ended.
NoCall == [macro |-> "none", site |-> NoSite, operands |-> <<>>, evals |-> 0,
           outcome |-> "none"]

\* The effect of a statement: evals = how many times the operand expressions
\* are evaluated, fatal = the V8_Fatal call made (at most one), enter = the
\* double helper entered (at most one), backtrace = calls to DumpBacktrace.
Effect(evals, fatal, enter) ==
    [evals |-> evals, fatal |-> fatal, enter |-> enter, backtrace |-> 0]

\* ((void) 0)
VoidZero == Effect(0, <<>>, <<>>)

\* ------------------------------------------------- FATAL and friends

\* A FATAL that reports file and line in every build (what C5 rules out).
FATAL_ProdKeepsLocation(site, msg) ==
    Effect(1, <<V8_Fatal(site.file, site.line, <<"%s">>,
                         <<Arg("const char*", msg)>>)>>, <<>>)

\* FATAL(msg)
FATAL(site, msg) ==
    IF debug
    THEN Effect(1, <<V8_Fatal(site.file, site.line, <<"%s">>,
                              <<Arg("const char*", msg)>>)>>, <<>>)
    ELSE Effect(1, <<V8_Fatal("", 0, <<"%s">>,
                              <<Arg("const char*", msg)>>)>>, <<>>)

\* UNIMPLEMENTED()
UNIMPLEMENTED(site) ==
    IF debug
    THEN Effect(0, <<V8_Fatal(site.file, site.line, <<"unimplemented code">>,
                              <<>>)>>, <<>>)
    ELSE Effect(0, <<V8_Fatal("", 0, <<"unimplemented code">>, <<>>)>>, <<>>)

\* An UNREACHABLE that aborts in every build (what C4 rules out).
UNREACHABLE_AlwaysFatal(site) ==
    Effect(0, <<V8_Fatal(site.file, site.line, <<"unreachable code">>, <<>>)>>,
           <<>>)

\* UNREACHABLE()
UNREACHABLE(site) ==
    IF debug
    THEN Effect(0, <<V8_Fatal(site.file, site.line, <<"unreachable code">>,
                              <<>>)>>, <<>>)
    ELSE VoidZero

\* ----------------------------------------------------------------- CHECK

\* CHECK(condition): condition is evaluated once; #condition is its text.
CHECK(site, condition) ==
    IF ~condition.v
    THEN Effect(1, <<V8_Fatal(site.file, site.line,
                              <<"CHECK(", "%s", ") failed">>,
                              <<Arg("const char*", condition.src)>>)>>, <<>>)
    ELSE Effect(1, <<>>, <<>>)

\* ------------------------------------------------- int64_t arithmetic

\* expected >> 32 on an int64_t (arithmetic shift), still an int64_t.
ShiftRight32(x) ==
    LET s == IF x[1] >= 32768 THEN 65535 ELSE 0
    IN  <<s, s, x[1], x[2]>>

\* static_cast<uint32_t>(x) of an int64_t: the low 32 bits, as two limbs.
ToUint32(x) == <<x[3], x[4]>>

\* ------------------------------------------------------------- strcmp

RECURSIVE StrcmpAt(_, _, _)
StrcmpAt(s1, s2, i) ==
    LET c1 == StrMem[s1][i]
        c2 == StrMem[s2][i]
    IN  IF c1 # c2 THEN (IF c1 < c2 THEN -1 ELSE 1)
        ELSE IF c1 = 0 THEN 0
        ELSE StrcmpAt(s1, s2, i + 1)

strcmp(s1, s2) == StrcmpAt(s1, s2, 1)

\* ------------------------------------------------ typed helpers (atomic)
\* Each yields the V8_Fatal calls it makes: none, or one.

\* CheckEqualsHelper(const char*, int, const char*, int, const char*, int)
CheckEqualsHelper_int(file, line, expected_source, expected, value_source, value) ==
    IF expected # value
    THEN <<V8_Fatal(file, line,
                    <<"CHECK_EQ(", "%s", ", ", "%s", ") failed\n#   Expected: ",
                      "%i", "\n#   Found: ", "%i">>,
                    <<Arg("const char*", expected_source),
                      Arg("const char*", value_source),
                      Arg("int", expected), Arg("int", value)>>)>>
    ELSE <<>>

\* CheckEqualsHelper(..., int64_t expected, ..., int64_t value)
CheckEqualsHelper_int64(file, line, expected_source, expected, value_source, value) ==
    IF expected # value
    THEN <<V8_Fatal(file, line,
                    <<"CHECK_EQ(", "%s", ", ", "%s", ") failed\n#   Expected: 0x",
                      "%08x", "%08x", "\n#   Found: 0x", "%08x", "%08x">>,
                    <<Arg("const char*", expected_source),
                      Arg("const char*", value_source),
                      Arg("uint32_t", ToUint32(ShiftRight32(expected))),
                      Arg("uint32_t", ToUint32(expected)),
                      Arg("uint32_t", ToUint32(ShiftRight32(value))),
                      Arg("uint32_t", ToUint32(value))>>)>>
    ELSE <<>>

\* CheckEqualsHelper(..., intptr_t expected, ..., intptr_t value), compiled
\* on 32-bit AIX only.
CheckEqualsHelper_intptr(file, line, expected_source, expected, value_source, value) ==
    IF expected # value
    THEN <<V8_Fatal(file, line,
                    <<"CHECK_EQ(", "%s", ", ", "%s", ") failed\n#   Expected: 0x",
                      "%lx", "\n#   Found: 0x", "%lx">>,
                    <<Arg("const char*", expected_source),
                      Arg("const char*", value_source),
                      Arg("intptr_t", expected), Arg("intptr_t", value)>>)>>
    ELSE <<>>

\* CheckNonEqualsHelper(..., int unexpected, ..., int value)
CheckNonEqualsHelper_int(file, line, unexpected_source, unexpected, value_source, value) ==
    IF unexpected = value
    THEN <<V8_Fatal(file, line,
                    <<"CHECK_NE(", "%s", ", ", "%s", ") failed\n#   Value: ", "%i">>,
                    <<Arg("const char*", unexpected_source),
                      Arg("const char*", value_source),
                      Arg("int", value)>>)>>
    ELSE <<>>

\* CheckEqualsHelper(..., const char* expected, ..., const char* value)
CheckEqualsHelper_string(file, line, expected_source, expected, value_source, value) ==
    IF \/ (expected = NULL /\ value # NULL)
       \/ (expected # NULL /\ value = NULL)
       \/ (expected # NULL /\ value # NULL /\ strcmp(expected, value) # 0)
    THEN <<V8_Fatal(file, line,
                    <<"CHECK_EQ(", "%s", ", ", "%s", ") failed\n#   Expected: ",
                      "%s", "\n#   Found: ", "%s">>,
                    <<Arg("const char*", expected_source),
                      Arg("const char*", value_source),
                      Arg("const char*", expected),
                      Arg("const char*", value)>>)>>
    ELSE <<>>

\* A string inequality helper without the pointer-identity test (what C6
\* rules out).
CheckNonEqualsHelper_string_NoIdentity(file, line, expected_source, expected, value_source, value) ==
    IF expected # NULL /\ value # NULL /\ strcmp(expected, value) = 0
    THEN <<V8_Fatal(file, line,
                    <<"CHECK_NE(", "%s", ", ", "%s", ") failed\n#   Value: ", "%s">>,
                    <<Arg("const char*", expected_source),
                      Arg("const char*", value_source),
                      Arg("const char*", value)>>)>>
    ELSE <<>>

\* CheckNonEqualsHelper(..., const char* expected, ..., const char* value)
CheckNonEqualsHelper_string(file, line, expected_source, expected, value_source, value) ==
    IF \/ expected = value
       \/ (expected # NULL /\ value # NULL /\ strcmp(expected, value) = 0)
    THEN <<V8_Fatal(file, line,
                    <<"CHECK_NE(", "%s", ", ", "%s", ") failed\n#   Value: ", "%s">>,
                    <<Arg("const char*", expected_source),
                      Arg("const char*", value_source),
                      Arg("const char*", value)>>)>>
    ELSE <<>>

\* CheckEqualsHelper(..., const void* expected, ..., const void* value)
CheckEqualsHelper_ptr(file, line, expected_source, expected, value_source, value) ==
    IF expected # value
    THEN <<V8_Fatal(file, line,
                    <<"CHECK_EQ(", "%s", ", ", "%s", ") failed\n#   Expected: ",
                      "%p", "\n#   Found: ", "%p">>,
                    <<Arg("const char*", expected_source),
                      Arg("const char*", value_source),
                      Arg("const void*", expected),
                      Arg("const void*", value)>>)>>
    ELSE <<>>

\* CheckNonEqualsHelper(..., const void* expected, ..., const void* value)
CheckNonEqualsHelper_ptr(file, line, expected_source, expected, value_source, value) ==
    IF expected = value
    THEN <<V8_Fatal(file, line,
                    <<"CHECK_NE(", "%s", ", ", "%s", ") failed\n#   Value: ", "%p">>,
                    <<Arg("const char*", expected_source),
                      Arg("const char*", value_source),
                      Arg("const void*", value)>>)>>
    ELSE <<>>

\* CheckNonEqualsHelper(..., int64_t expected, ..., int64_t value): the
\* format is the double helper's ("CHECK_EQ", %f) and the two int64_t
\* operands are passed to it as they are.
CheckNonEqualsHelper_int64(file, line, expected_source, expected, value_source, value) ==
    IF expected = value
    THEN <<V8_Fatal(file, line,
                    <<"CHECK_EQ(", "%s", ", ", "%s", ") failed\n#   Expected: ",
                      "%f", "\n#   Found: ", "%f">>,
                    <<Arg("const char*", expected_source),
                      Arg("const char*", value_source),
                      Arg("int64_t", expected),
                      Arg("int64_t", value)>>)>>
    ELSE <<>>

\* The double overloads allocate: the call enters the helper, which then
\* runs step by step (NewExp .. DeleteVal below).
EnterHelper(fn, file, line, expected_source, expected, value_source, value) ==
    [file |-> file, line |-> line,
     expected_source |-> expected_source, expected |-> expected,
     value_source |-> value_source, value |-> value,
     exp |-> <<>>, val |-> <<>>, fn |-> fn]

\* ------------------------------------------------ CHECK_EQ and relatives

\* CHECK_EQ(expected, value): overload resolution on the operands' type.
CHECK_EQ(site, expected, value) ==
    CASE expected.kind = "int" ->
           Effect(1, CheckEqualsHelper_int(site.file, site.line, expected.src,
                       expected.v, value.src, value.v), <<>>)
      [] expected.kind = "int64" ->
           Effect(1, CheckEqualsHelper_int64(site.file, site.line, expected.src,
                       expected.v, value.src, value.v), <<>>)
      [] expected.kind = "intptr" ->
           Effect(1, CheckEqualsHelper_intptr(site.file, site.line, expected.src,
                       expected.v, value.src, value.v), <<>>)
      [] expected.kind = "string" ->
           Effect(1, CheckEqualsHelper_string(site.file, site.line, expected.src,
                       expected.v, value.src, value.v), <<>>)
      [] expected.kind = "ptr" ->
           Effect(1, CheckEqualsHelper_ptr(site.file, site.line, expected.src,
                       expected.v, value.src, value.v), <<>>)
      [] expected.kind = "double" ->
           Effect(1, <<>>, <<EnterHelper("CheckEqualsHelper", site.file, site.line,
                       expected.src, expected.v, value.src, value.v)>>)

\* CHECK_NE(unexpected, value)
CHECK_NE(site, unexpected, value) ==
    CASE unexpected.kind = "int" ->
           Effect(1, CheckNonEqualsHelper_int(site.file, site.line, unexpected.src,
                       unexpected.v, value.src, value.v), <<>>)
      [] unexpected.kind = "int64" ->
           Effect(1, CheckNonEqualsHelper_int64(site.file, site.line, unexpected.src,
                       unexpected.v, value.src, value.v), <<>>)
      [] unexpected.kind = "string" ->
           Effect(1, CheckNonEqualsHelper_string(site.file, site.line, unexpected.src,
                       unexpected.v, value.src, value.v), <<>>)
      [] unexpected.kind = "ptr" ->
           Effect(1, CheckNonEqualsHelper_ptr(site.file, site.line, unexpected.src,
                       unexpected.v, value.src, value.v), <<>>)
      [] unexpected.kind = "double" ->
           Effect(1, <<>>, <<EnterHelper("CheckNonEqualsHelper", site.file, site.line,
                       unexpected.src, unexpected.v, value.src, value.v)>>)

\* The text of a relational condition, as # stringifies it.
RelText(a, op, b) == "(" \o a.src \o ") " \o op \o " (" \o b.src \o ")"
Cond(src, val) == Operand(src, "bool", val)

\* A CHECK_GT that tests >= (what C1 rules out).
CHECK_GT_AsGE(site, a, b) == CHECK(site, Cond(RelText(a, ">", b), a.v >= b.v))

\* CHECK_GT(a, b)
CHECK_GT(site, a, b) == CHECK(site, Cond(RelText(a, ">", b), a.v > b.v))
\* CHECK_GE(a, b)
CHECK_GE(site, a, b) == CHECK(site, Cond(RelText(a, ">=", b), a.v >= b.v))
\* CHECK_LT(a, b)
CHECK_LT(site, a, b) == CHECK(site, Cond(RelText(a, "<", b), a.v < b.v))
\* CHECK_LE(a, b)
CHECK_LE(site, a, b) == CHECK(site, Cond(RelText(a, "<=", b), a.v <= b.v))

\* ---------------------------------------------------------------- ASSERT

\* An ASSERT_RESULT that drops its expression in production (what C3 rules
\* out).
ASSERT_RESULT_ProdNoop(site, expr) ==
    IF debug THEN CHECK(site, expr) ELSE VoidZero

\* ASSERT_RESULT(expr): (expr) in production, evaluated for its effect.
ASSERT_RESULT(site, expr) ==
    IF debug THEN CHECK(site, expr) ELSE Effect(1, <<>>, <<>>)

\* ASSERT(condition)
ASSERT(site, condition) == IF debug THEN CHECK(site, condition) ELSE VoidZero
\* ASSERT_EQ(v1, v2)
ASSERT_EQ(site, v1, v2) == IF debug THEN CHECK_EQ(site, v1, v2) ELSE VoidZero
\* ASSERT_NE(v1, v2)
ASSERT_NE(site, v1, v2) == IF debug THEN CHECK_NE(site, v1, v2) ELSE VoidZero
\* ASSERT_NOT_NULL(p) is ASSERT_NE(NULL, p).  The NULL operand goes to the
\* overload p's pointer type selects, and its text is the expansion of NULL,
\* which is __null.
ASSERT_NOT_NULL(site, p) == ASSERT_NE(site, Operand("__null", p.kind, NULL), p)
\* ASSERT_GE(v1, v2)
ASSERT_GE(site, v1, v2) == IF debug THEN CHECK_GE(site, v1, v2) ELSE VoidZero
\* ASSERT_LT(v1, v2)
ASSERT_LT(site, v1, v2) == IF debug THEN CHECK_LT(site, v1, v2) ELSE VoidZero
\* ASSERT_LE(v1, v2)
ASSERT_LE(site, v1, v2) == IF debug THEN CHECK_LE(site, v1, v2) ELSE VoidZero

\* ----------------------------------------------------- flag-gated checks

\* An EXTRA_CHECK gated on DEBUG instead of its own flag (what C8 rules out).
EXTRA_CHECK_OnDebug(site, condition) ==
    IF debug THEN CHECK(site, condition) ELSE VoidZero

\* EXTRA_CHECK(condition)
EXTRA_CHECK(site, condition) ==
    IF extraChecks THEN CHECK(site, condition) ELSE VoidZero

\* PPCPORT_CHECK(condition)
PPCPORT_CHECK(site, condition) ==
    IF ppcChecks THEN CHECK(site, condition) ELSE VoidZero
\* PPCPORT_UNIMPLEMENTED()
PPCPORT_UNIMPLEMENTED(site) ==
    IF ppcChecks THEN UNIMPLEMENTED(site) ELSE VoidZero
\* PPCPORT_UNSAFE_IMPLEMENTATION()
PPCPORT_UNSAFE_IMPLEMENTATION(site) ==
    IF ppcChecks THEN VoidZero ELSE VoidZero

\* --------------------------------------------------- the double helpers

\* *exp = expected: the store to a 64-bit memory cell rounds an extended
\* value to the nearest 64-bit double (ties to even).
ToDouble64(x) ==
    IF x.nan THEN x
    ELSE LET r == x.q % 4
             down == x.q - r
         IN  [nan |-> FALSE,
              q |-> CASE r = 0 -> x.q
                      [] r = 1 -> down
                      [] r = 3 -> down + 4
                      [] OTHER -> IF (down \div 4) % 2 = 0 THEN down ELSE down + 4]

\* *exp == *val on two doubles in memory (IEEE: a NaN equals nothing).
DoubleEq(a, b) == ~a.nan /\ ~b.nan /\ a.q = b.q

\* The test and the V8_Fatal call of the double helper whose frame is f.
HelperCompare(f) ==
    IF f.fn = "CheckEqualsHelper"
    THEN IF ~DoubleEq(f.exp[1], f.val[1])
         THEN <<V8_Fatal(f.file, f.line,
                         <<"CHECK_EQ(", "%s", ", ", "%s", ") failed\n#   Expected: ",
                           "%f", "\n#   Found: ", "%f">>,
                         <<Arg("const char*", f.expected_source),
                           Arg("const char*", f.value_source),
                           Arg("double", f.exp[1]), Arg("double", f.val[1])>>)>>
         ELSE <<>>
    ELSE IF DoubleEq(f.exp[1], f.val[1])
         THEN <<V8_Fatal(f.file, f.line,
                         <<"CHECK_NE(", "%s", ", ", "%s", ") failed\n#   Value: ", "%f">>,
                         <<Arg("const char*", f.expected_source),
                           Arg("const char*", f.value_source),
                           Arg("double", f.val[1])>>)>>
         ELSE <<>>

\* ----------------------------------------------------------------- state

Init ==
    /\ debug \in BOOLEAN
    /\ aix32 \in BOOLEAN
    /\ extraChecks \in BOOLEAN
    /\ ppcChecks \in BOOLEAN
    /\ pc = [t \in Threads |-> "idle"]
    /\ frame = [t \in Threads |-> NoFrame]
    /\ last = NoCall
    /\ fatalCalls = <<>>
    /\ backtraces = 0
    /\ outstanding = 0
    /\ released = 0
    /\ passes = 0

\* V8_Fatal does not return and an exception nobody catches ends in
\* std::terminate: either way the process is over.
Halted == fatalCalls # <<>> \/ \E t \in Threads : pc[t] = "threw"

Observe(t, call) == IF t = Main THEN call ELSE last
Outcome(t, outcome) == Observe(t, [last EXCEPT !.outcome = outcome])

\* Thread t executes the expansion of a macro whose effect is eff.  A run
\* makes new invocations until MaxPasses of them have returned.
Invoke(t, macro, site, args, eff) ==
    /\ ~Halted
    /\ passes < MaxPasses
    /\ backtraces' = backtraces + eff.backtrace
    /\ IF eff.fatal # <<>>
       THEN /\ fatalCalls' = fatalCalls \o eff.fatal
            /\ pc' = [pc EXCEPT ![t] = "aborted"]
            /\ last' = Observe(t, [macro |-> macro, site |-> site, operands |-> args,
                                   evals |-> eff.evals, outcome |-> "fatal"])
            /\ UNCHANGED <<frame, passes>>
       ELSE IF eff.enter # <<>>
       THEN /\ pc' = [pc EXCEPT ![t] = "new_exp"]
            /\ frame' = [frame EXCEPT ![t] = eff.enter[1]]
            /\ last' = Observe(t, [macro |-> macro, site |-> site, operands |-> args,
                                   evals |-> eff.evals, outcome |-> "running"])
            /\ UNCHANGED <<fatalCalls, passes>>
       ELSE /\ last' = Observe(t, [macro |-> macro, site |-> site, operands |-> args,
                                   evals |-> eff.evals, outcome |-> "returned"])
            /\ passes' = passes + 1
            /\ UNCHANGED <<pc, frame, fatalCalls>>
    /\ UNCHANGED <<debug, aix32, extraChecks, ppcChecks, outstanding, released>>

\* volatile double* exp = new double[1]; *exp = expected;
NewExp(t) ==
    /\ ~Halted
    /\ pc[t] = "new_exp"
    /\ \E ok \in BOOLEAN :
         IF ok
         THEN /\ outstanding' = outstanding + 1
              /\ frame' = [frame EXCEPT ![t].exp = <<ToDouble64(frame[t].expected)>>]
              /\ pc' = [pc EXCEPT ![t] = "new_val"]
              /\ UNCHANGED last
         ELSE /\ pc' = [pc EXCEPT ![t] = "threw"]
              /\ last' = Outcome(t, "bad_alloc")
              /\ UNCHANGED <<outstanding, frame>>
    /\ UNCHANGED <<debug, aix32, extraChecks, ppcChecks, fatalCalls, backtraces,
                   released, passes>>

\* volatile double* val = new double[1]; *val = value;
NewVal(t) ==
    /\ ~Halted
    /\ pc[t] = "new_val"
    /\ \E ok \in BOOLEAN :
         IF ok
         THEN /\ outstanding' = outstanding + 1
              /\ frame' = [frame EXCEPT ![t].val = <<ToDouble64(frame[t].value)>>]
              /\ pc' = [pc EXCEPT ![t] = "compare"]
              /\ UNCHANGED last
         ELSE /\ pc' = [pc EXCEPT ![t] = "threw"]
              /\ last' = Outcome(t, "bad_alloc")
              /\ UNCHANGED <<outstanding, frame>>
    /\ UNCHANGED <<debug, aix32, extraChecks, ppcChecks, fatalCalls, backtraces,
                   released, passes>>

\* if (*exp != *val) V8_Fatal(...)   (if (*exp == *val) for CHECK_NE)
Compare(t) ==
    /\ ~Halted
    /\ pc[t] = "compare"
    /\ LET fatal == HelperCompare(frame[t])
       IN  IF fatal # <<>>
           THEN /\ fatalCalls' = fatalCalls \o fatal
                /\ pc' = [pc EXCEPT ![t] = "aborted"]
                /\ last' = Outcome(t, "fatal")
           ELSE /\ pc' = [pc EXCEPT ![t] = "delete_exp"]
                /\ UNCHANGED <<fatalCalls, last>>
    /\ UNCHANGED <<debug, aix32, extraChecks, ppcChecks, frame, backtraces,
                   outstanding, released, passes>>

\* delete[] exp;
DeleteExp(t) ==
    /\ ~Halted
    /\ pc[t] = "delete_exp"
    /\ outstanding' = outstanding - 1
    /\ released' = released + 1
    /\ frame' = [frame EXCEPT ![t].exp = <<>>]
    /\ pc' = [pc EXCEPT ![t] = "delete_val"]
    /\ UNCHANGED <<debug, aix32, extraChecks, ppcChecks, last, fatalCalls, backtraces,
                   passes>>

\* A final step that forgets delete[] val (what C10 rules out).
DeleteVal_Leak(t) ==
    /\ ~Halted
    /\ pc[t] = "delete_val"
    /\ frame' = [frame EXCEPT ![t] = NoFrame]
    /\ pc' = [pc EXCEPT ![t] = "idle"]
    /\ last' = Outcome(t, "returned")
    /\ passes' = passes + 1
    /\ UNCHANGED <<debug, aix32, extraChecks, ppcChecks, fatalCalls, backtraces,
                   outstanding, released>>

\* delete[] val; and the helper returns.
DeleteVal(t) ==
    /\ ~Halted
    /\ pc[t] = "delete_val"
    /\ outstanding' = outstanding - 1
    /\ released' = released + 1
    /\ frame' = [frame EXCEPT ![t] = NoFrame]
    /\ pc' = [pc EXCEPT ![t] = "idle"]
    /\ last' = Outcome(t, "returned")
    /\ passes' = passes + 1
    /\ UNCHANGED <<debug, aix32, extraChecks, ppcChecks, fatalCalls, backtraces>>

\* --------------------------------------------------------- macro calls
\* The main thread is the observed one and draws its operands from the full
\* sets; the worker threads draw theirs from smaller ones.

WorkerSites == { [file |-> "w.cc", line |-> 30] }
SitesFor(t) == IF t = Main THEN Sites ELSE WorkerSites

\* A worker's second operand ("y") is one value and any other operand is one
\* of two values, so that each comparison both holds and fails.
WorkerValues(src, kind) ==
    CASE kind = "int"    -> IF src = "x" THEN {3, 5} ELSE {5}
      [] kind = "int64"  -> IF src = "x" THEN {<<0, 1, 0, 2>>, <<0, 0, 0, 3>>}
                            ELSE {<<0, 0, 0, 3>>}
      [] kind = "intptr" -> IF src = "x" THEN {0, 16} ELSE {16}
      [] kind = "string" -> IF src = "y" THEN {2} ELSE {NULL, 1}
      [] kind = "ptr"    -> IF src = "y" THEN {16} ELSE {NULL, 16}
      [] kind = "double" -> IF src = "x"
                            THEN {[nan |-> FALSE, q |-> 4], [nan |-> FALSE, q |-> 8]}
                            ELSE {[nan |-> FALSE, q |-> 5]}
      [] kind = "bool"   -> BOOLEAN
WorkerOperandsOf(src, kind) == { Operand(src, kind, v) : v \in WorkerValues(src, kind) }
Operands(t, src, kind) ==
    IF t = Main THEN OperandsOf(src, kind) ELSE WorkerOperandsOf(src, kind)

Messages == {"boom", ""}
MessagesFor(t) == IF t = Main THEN Messages ELSE {"boom"}

Call_FATAL(t) ==
    /\ pc[t] = "idle"
    /\ \E site \in SitesFor(t), msg \in MessagesFor(t) :
            Invoke(t, "FATAL", site, <<Operand("msg", "message", msg)>>, FATAL(site, msg))

Call_UNIMPLEMENTED(t) ==
    /\ pc[t] = "idle"
    /\ \E site \in SitesFor(t) :
            Invoke(t, "UNIMPLEMENTED", site, <<>>, UNIMPLEMENTED(site))

Call_UNREACHABLE(t) ==
    /\ pc[t] = "idle"
    /\ \E site \in SitesFor(t) :
            Invoke(t, "UNREACHABLE", site, <<>>, UNREACHABLE(site))

Call_PPCPORT_UNIMPLEMENTED(t) ==
    /\ pc[t] = "idle"
    /\ \E site \in SitesFor(t) :
            Invoke(t, "PPCPORT_UNIMPLEMENTED", site, <<>>, PPCPORT_UNIMPLEMENTED(site))

Call_PPCPORT_UNSAFE_IMPLEMENTATION(t) ==
    /\ pc[t] = "idle"
    /\ \E site \in SitesFor(t) :
            Invoke(t, "PPCPORT_UNSAFE_IMPLEMENTATION", site, <<>>, PPCPORT_UNSAFE_IMPLEMENTATION(site))

Call_CHECK(t) ==
    /\ pc[t] = "idle"
    /\ \E site \in SitesFor(t), c \in Operands(t, "c", "bool") :
            Invoke(t, "CHECK", site, <<c>>, CHECK(site, c))

Call_ASSERT(t) ==
    /\ pc[t] = "idle"
    /\ \E site \in SitesFor(t), c \in Operands(t, "c", "bool") :
            Invoke(t, "ASSERT", site, <<c>>, ASSERT(site, c))

Call_ASSERT_RESULT(t) ==
    /\ pc[t] = "idle"
    /\ \E site \in SitesFor(t), c \in Operands(t, "c", "bool") :
            Invoke(t, "ASSERT_RESULT", site, <<c>>, ASSERT_RESULT(site, c))

Call_EXTRA_CHECK(t) ==
    /\ pc[t] = "idle"
    /\ \E site \in SitesFor(t), c \in Operands(t, "c", "bool") :
            Invoke(t, "EXTRA_CHECK", site, <<c>>, EXTRA_CHECK(site, c))

Call_PPCPORT_CHECK(t) ==
    /\ pc[t] = "idle"
    /\ \E site \in SitesFor(t), c \in Operands(t, "c", "bool") :
            Invoke(t, "PPCPORT_CHECK", site, <<c>>, PPCPORT_CHECK(site, c))

Call_CHECK_GT(t) ==
    /\ pc[t] = "idle"
    /\ \E site \in SitesFor(t), a \in Operands(t, "x", "int"), b \in Operands(t, "y", "int") :
            Invoke(t, "CHECK_GT", site, <<a, b>>, CHECK_GT(site, a, b))

Call_CHECK_GE(t) ==
    /\ pc[t] = "idle"
    /\ \E site \in SitesFor(t), a \in Operands(t, "x", "int"), b \in Operands(t, "y", "int") :
            Invoke(t, "CHECK_GE", site, <<a, b>>, CHECK_GE(site, a, b))

Call_CHECK_LT(t) ==
    /\ pc[t] = "idle"
    /\ \E site \in SitesFor(t), a \in Operands(t, "x", "int"), b \in Operands(t, "y", "int") :
            Invoke(t, "CHECK_LT", site, <<a, b>>, CHECK_LT(site, a, b))

Call_CHECK_LE(t) ==
    /\ pc[t] = "idle"
    /\ \E site \in SitesFor(t), a \in Operands(t, "x", "int"), b \in Operands(t, "y", "int") :
            Invoke(t, "CHECK_LE", site, <<a, b>>, CHECK_LE(site, a, b))

Call_ASSERT_GE(t) ==
    /\ pc[t] = "idle"
    /\ \E site \in SitesFor(t), a \in Operands(t, "x", "int"), b \in Operands(t, "y", "int") :
            Invoke(t, "ASSERT_GE", site, <<a, b>>, ASSERT_GE(site, a, b))

Call_ASSERT_LT(t) ==
    /\ pc[t] = "idle"
    /\ \E site \in SitesFor(t), a \in Operands(t, "x", "int"), b \in Operands(t, "y", "int") :
            Invoke(t, "ASSERT_LT", site, <<a, b>>, ASSERT_LT(site, a, b))

Call_ASSERT_LE(t) ==
    /\ pc[t] = "idle"
    /\ \E site \in SitesFor(t), a \in Operands(t, "x", "int"), b \in Operands(t, "y", "int") :
            Invoke(t, "ASSERT_LE", site, <<a, b>>, ASSERT_LE(site, a, b))

Call_CHECK_EQ(t) ==
    /\ pc[t] = "idle"
    /\ \E site \in SitesFor(t), kind \in EqualsKinds :
            \E a \in Operands(t, "x", kind), b \in Operands(t, "y", kind) :
                Invoke(t, "CHECK_EQ", site, <<a, b>>, CHECK_EQ(site, a, b))

Call_CHECK_NE(t) ==
    /\ pc[t] = "idle"
    /\ \E site \in SitesFor(t), kind \in Kinds :
            \E a \in Operands(t, "x", kind), b \in Operands(t, "y", kind) :
                Invoke(t, "CHECK_NE", site, <<a, b>>, CHECK_NE(site, a, b))

Call_ASSERT_EQ(t) ==
    /\ pc[t] = "idle"
    /\ \E site \in SitesFor(t), kind \in EqualsKinds :
            \E a \in Operands(t, "x", kind), b \in Operands(t, "y", kind) :
                Invoke(t, "ASSERT_EQ", site, <<a, b>>, ASSERT_EQ(site, a, b))

Call_ASSERT_NE(t) ==
    /\ pc[t] = "idle"
    /\ \E site \in SitesFor(t), kind \in Kinds :
            \E a \in Operands(t, "x", kind), b \in Operands(t, "y", kind) :
                Invoke(t, "ASSERT_NE", site, <<a, b>>, ASSERT_NE(site, a, b))

Call_ASSERT_NOT_NULL(t) ==
    /\ pc[t] = "idle"
    /\ \E site \in SitesFor(t), kind \in PointerKinds :
            \E p \in Operands(t, "p", kind) :
                Invoke(t, "ASSERT_NOT_NULL", site,
                       <<Operand("__null", kind, NULL), p>>, ASSERT_NOT_NULL(site, p))

Step(t) ==
    \/ Call_FATAL(t)
    \/ Call_UNIMPLEMENTED(t)
    \/ Call_UNREACHABLE(t)
    \/ Call_PPCPORT_UNIMPLEMENTED(t)
    \/ Call_PPCPORT_UNSAFE_IMPLEMENTATION(t)
    \/ Call_CHECK(t)
    \/ Call_ASSERT(t)
    \/ Call_ASSERT_RESULT(t)
    \/ Call_EXTRA_CHECK(t)
    \/ Call_PPCPORT_CHECK(t)
    \/ Call_CHECK_GT(t)
    \/ Call_CHECK_GE(t)
    \/ Call_CHECK_LT(t)
    \/ Call_CHECK_LE(t)
    \/ Call_ASSERT_GE(t)
    \/ Call_ASSERT_LT(t)
    \/ Call_ASSERT_LE(t)
    \/ Call_CHECK_EQ(t)
    \/ Call_CHECK_NE(t)
    \/ Call_ASSERT_EQ(t)
    \/ Call_ASSERT_NE(t)
    \/ Call_ASSERT_NOT_NULL(t)
    \/ NewExp(t)
    \/ NewVal(t)
    \/ Compare(t)
    \/ DeleteExp(t)
    \/ DeleteVal(t)

\* A program of one thread, whose every macro invocation is observed.
Next == Step(Main)
Spec == Init /\ [][Next]_vars

\* The worker threads run concurrently.
NextMT == \E t \in Workers : Step(t)
SpecMT == Init /\ [][NextMT]_vars

\* =================================================================
\* Properties
\* =================================================================

MainDone == last.outcome \in {"returned", "fatal", "bad_alloc"}
TheCall == fatalCalls[1]
\* The invocation observed last called V8_Fatal (once) and did not return.
Aborted == last.outcome = "fatal" /\ Len(fatalCalls) = 1 /\ pc[Main] = "aborted"
\* The invocation observed last returned and V8_Fatal was never called.
Returned == last.outcome = "returned" /\ fatalCalls = <<>> /\ pc[Main] = "idle"
Op1 == last.operands[1]
Op2 == last.operands[2]
AtSite(call, site) == call.file = site.file /\ call.line = site.line
Unlocated(call) == call.file = "" /\ call.line = 0

\* What CHECK(condition) does at the observed site: V8_Fatal exactly when
\* the condition is false, with the site and the condition's text.
LikeCheck(holds, text) ==
    /\ last.evals = 1
    /\ holds => Returned
    /\ ~holds => /\ Aborted
                 /\ AtSite(TheCall, last.site)
                 /\ TheCall.format = <<"CHECK(", "%s", ") failed">>
                 /\ TheCall.args = <<Arg("const char*", text)>>
NoOp == last.evals = 0 /\ Returned

\* C1: in every build configuration CHECK(cond) and CHECK_GT/GE/LT/LE(a, b)
\* call V8_Fatal exactly when the condition (a>b, a>=b, a<b, a<=b) is false
\* and return without calling it when the condition is true.
C1_CheckAbortsIffFalse ==
    /\ last.macro = "CHECK" => LikeCheck(Op1.v, Op1.src)
    /\ last.macro = "CHECK_GT" => LikeCheck(Op1.v > Op2.v, "(x) > (y)")
    /\ last.macro = "CHECK_GE" => LikeCheck(Op1.v >= Op2.v, "(x) >= (y)")
    /\ last.macro = "CHECK_LT" => LikeCheck(Op1.v < Op2.v, "(x) < (y)")
    /\ last.macro = "CHECK_LE" => LikeCheck(Op1.v <= Op2.v, "(x) <= (y)")

\* CHECK_GT(3, 5) aborted in a production build with both flags off.
C1_Witness ==
    /\ ~debug /\ ~extraChecks /\ ~ppcChecks
    /\ last.macro = "CHECK_GT" /\ Op1.v = 3 /\ Op2.v = 5 /\ Aborted

\* The value equality each kind's CHECK_EQ is documented to test.
SameString(a, b) ==
    \/ (a = NULL /\ b = NULL)
    \/ (a # NULL /\ b # NULL /\ StrMem[a] = StrMem[b])
ValuesEqual(kind, a, b) ==
    CASE kind = "string" -> SameString(a, b)
      [] kind = "double" -> DoubleEq(ToDouble64(a), ToDouble64(b))
      [] OTHER -> a = b
AssertMacros == {"ASSERT", "ASSERT_EQ", "ASSERT_NE", "ASSERT_GE", "ASSERT_LT",
                 "ASSERT_LE", "ASSERT_NOT_NULL"}
AssertPredicate ==
    CASE last.macro = "ASSERT" -> Op1.v
      [] last.macro = "ASSERT_EQ" -> ValuesEqual(Op1.kind, Op1.v, Op2.v)
      [] last.macro = "ASSERT_NE" -> ~ValuesEqual(Op1.kind, Op1.v, Op2.v)
      [] last.macro = "ASSERT_NOT_NULL" -> Op2.v # NULL
      [] last.macro = "ASSERT_GE" -> Op1.v >= Op2.v
      [] last.macro = "ASSERT_LT" -> Op1.v < Op2.v
      [] last.macro = "ASSERT_LE" -> Op1.v <= Op2.v

\* C2: the ASSERT family aborts iff its predicate is false in development
\* mode, and in production mode is a no-op: V8_Fatal is never called, the
\* operands are not evaluated and control continues.
C2_AssertFamily ==
    (last.macro \in AssertMacros /\ last.outcome # "running") =>
        IF debug
        THEN /\ last.evals = 1
             /\ AssertPredicate => Returned
             /\ ~AssertPredicate => Aborted
        ELSE NoOp

\* C3: ASSERT_RESULT(expr) evaluates expr exactly once in both modes; the
\* result is checked only in development mode, and in production V8_Fatal
\* is never called whatever the result.
C3_AssertResultEvaluatesOnce ==
    last.macro = "ASSERT_RESULT" =>
        /\ last.evals = 1
        /\ debug => LikeCheck(Op1.v, Op1.src)
        /\ ~debug => Returned

\* ASSERT_RESULT of an expression that is false, in production: evaluated
\* once, not checked.
C3_Witness ==
    /\ ~debug /\ last.macro = "ASSERT_RESULT" /\ Op1.v = FALSE
    /\ last.evals = 1 /\ Returned

\* C4: UNREACHABLE() in development mode calls V8_Fatal with the call
\* site's file and line and "unreachable code" and does not return; in
\* production mode it never calls V8_Fatal and control falls through.
C4_Unreachable ==
    last.macro = "UNREACHABLE" =>
        IF debug
        THEN /\ Aborted
             /\ AtSite(TheCall, last.site)
             /\ TheCall.format = <<"unreachable code">>
             /\ TheCall.args = <<>>
        ELSE NoOp

C4_Witness ==
    /\ debug /\ last.macro = "UNREACHABLE" /\ Aborted
    /\ last.site = [file |-> "b.cc", line |-> 20]

\* C5: UNIMPLEMENTED() and FATAL(msg) call V8_Fatal in both modes and never
\* return; V8_Fatal gets the call site's file and line in development mode
\* and "" and 0 in production mode, and FATAL passes msg through unchanged.
C5_FatalAndUnimplemented ==
    /\ last.macro \in {"FATAL", "UNIMPLEMENTED"} =>
         /\ Aborted
         /\ debug => AtSite(TheCall, last.site)
         /\ ~debug => Unlocated(TheCall)
    /\ last.macro = "FATAL" =>
         /\ TheCall.format = <<"%s">>
         /\ TheCall.args = <<Arg("const char*", Op1.v)>>
    /\ last.macro = "UNIMPLEMENTED" =>
         /\ TheCall.format = <<"unimplemented code">>
         /\ TheCall.args = <<>>

C5_Witness ==
    /\ ~debug /\ last.macro = "FATAL" /\ Op1.v = "boom" /\ Aborted
    /\ Unlocated(TheCall)

\* C6: on nullable byte strings CHECK_EQ(a, b) returns iff both are null or
\* both are non-null with identical bytes, CHECK_NE(a, b) aborts in exactly
\* those cases, and for every pair exactly one of the two aborts.
C6_StringContentEquality ==
    /\ (last.macro = "CHECK_EQ" /\ Op1.kind = "string") =>
         /\ SameString(Op1.v, Op2.v) => Returned
         /\ ~SameString(Op1.v, Op2.v) => Aborted
    /\ (last.macro = "CHECK_NE" /\ Op1.kind = "string") =>
         /\ SameString(Op1.v, Op2.v) => Aborted
         /\ ~SameString(Op1.v, Op2.v) => Returned
    /\ \A site \in Sites, a \in OperandsOf("x", "string"), b \in OperandsOf("y", "string") :
         (CHECK_EQ(site, a, b).fatal # <<>>) # (CHECK_NE(site, a, b).fatal # <<>>)

\* Two distinct non-null references to the same bytes compared equal.
C6_Witness ==
    /\ last.macro = "CHECK_EQ" /\ Op1.kind = "string"
    /\ Op1.v = 1 /\ Op2.v = 2 /\ Returned

\* The two 32-bit halves of an int64_t, as the claim names them.
High32(x) == <<x[1], x[2]>>
Low32(x) == <<x[3], x[4]>>
Halves(x) == <<Arg("uint32_t", High32(x)), Arg("uint32_t", Low32(x))>>
ConvSpecs == {"%s", "%i", "%08x", "%lx", "%p", "%f"}
IsConv(piece) == piece \in ConvSpecs
Conversions(format) == SelectSeq(format, IsConv)
Sources == <<Arg("const char*", "x"), Arg("const char*", "y")>>

\* C7: a failed check on 64-bit integers, equals or not-equals, reports each
\* operand value it shows as two 32-bit hex halves, high word then low word.
C7_Int64HexHalves ==
    (last.macro \in {"CHECK_EQ", "CHECK_NE"} /\ Op1.kind = "int64"
     /\ last.outcome = "fatal") =>
        /\ Len(fatalCalls) = 1
        /\ LET shown == SubSeq(TheCall.args, 3, Len(TheCall.args))
               convs == SubSeq(Conversions(TheCall.format), 3,
                               Len(Conversions(TheCall.format)))
           IN  /\ \A i \in 1..Len(convs) : convs[i] = "%08x"
               /\ \A i \in 1..Len(shown) : shown[i].type = "uint32_t"
               /\ Len(convs) = Len(shown)
               /\ \/ shown = Halves(Op1.v) \o Halves(Op2.v)
                  \/ shown = Halves(Op2.v)

\* C8: EXTRA_CHECK is CHECK iff the extra-checks flag is set, PPCPORT_CHECK
\* is CHECK and PPCPORT_UNIMPLEMENTED is UNIMPLEMENTED iff the PPC flag is
\* set, each otherwise a no-op, whatever the build mode; and
\* PPCPORT_UNSAFE_IMPLEMENTATION never calls V8_Fatal.
C8_FlagGatedFamilies ==
    /\ last.macro = "EXTRA_CHECK" =>
         IF extraChecks THEN LikeCheck(Op1.v, Op1.src) ELSE NoOp
    /\ last.macro = "PPCPORT_CHECK" =>
         IF ppcChecks THEN LikeCheck(Op1.v, Op1.src) ELSE NoOp
    /\ last.macro = "PPCPORT_UNIMPLEMENTED" =>
         IF ppcChecks
         THEN /\ Aborted
              /\ fatalCalls = UNIMPLEMENTED(last.site).fatal
              /\ TheCall.format = <<"unimplemented code">>
         ELSE NoOp
    /\ last.macro = "PPCPORT_UNSAFE_IMPLEMENTATION" => NoOp

\* A production build with only the extra-checks flag set: EXTRA_CHECK of a
\* false condition aborted.
C8_Witness ==
    /\ ~debug /\ extraChecks /\ ~ppcChecks
    /\ last.macro = "EXTRA_CHECK" /\ Op1.v = FALSE /\ Aborted

\* C9: a typed comparison helper ends only by returning or by its one call
\* to V8_Fatal; no step before that call can fail or throw, even when
\* memory is unavailable.
C9_HelpersNeverFail ==
    /\ \A t \in Threads : pc[t] # "threw"
    /\ last.outcome # "bad_alloc"

Quiescent == \A t \in Threads : pc[t] = "idle"

\* C10: once every check started has passed (returned), on any threads in
\* any interleaving, V8_Fatal and DumpBacktrace have been called zero times
\* and every block the double helpers allocated has been released.
C10_PassingChecksLeaveNoTrace ==
    Quiescent =>
        /\ fatalCalls = <<>>
        /\ backtraces = 0
        /\ outstanding = 0
        /\ \A t \in Threads : frame[t] = NoFrame

\* Two double checks have run to completion on the workers (four blocks
\* released) and every thread is idle again.
C10_Witness ==
    /\ Quiescent /\ released >= 4 /\ passes >= 2 /\ outstanding = 0

====
